---- MODULE Spec2Model ----
(***************************************************************************)
(* A model of mc_builder.py: the structure template engine                 *)
(* (scan_structure, paste_structure and its rotation / mirror transforms), *)
(* the template store (save_template, load_template) and the terrain-aware *)
(* path planner (build_smart_path with scan_ground).                       *)
(*                                                                         *)
(* The voxel world is the external amulet level: an unbounded grid that    *)
(* holds a base terrain everywhere, plus the finitely many cells that      *)
(* differ from it (the variable world).                                    *)
(***************************************************************************)
EXTENDS Integers, Sequences, FiniteSets, TLC

VARIABLES
    world,      \* the level: Coord -> Block for the cells that differ from Terrain
    template,   \* the template in hand (a scan_structure / load_template value)
    orig,       \* the template as first obtained, before any transform
    chain,      \* the transforms applied to template since, in order
    call,       \* the last template call: its arguments, result and writes
    fs,         \* the file system: path -> directory or file content
    pc,         \* where build_smart_path stands
    args,       \* the arguments of the call: start, end, width, block
    start_node, \* (sx, sz)
    end_node,   \* (ex, ez)
    ground,     \* the height map of scan_ground: column -> y
    blocked,    \* the columns build_smart_path found blocked
    open_set,   \* the heap of (f_score, node) entries
    came_from,  \* node -> the node it was best reached from
    g_score,    \* node -> cost of the best way found to it
    path,       \* the route, a list of (x, y, z)
    walk,       \* the column the fallback walk stands on
    paved,      \* how many cells the paving has visited
    out,        \* what the call printed and what it returned
    run,        \* which planning run this is (1, or 2 for the repeat)
    prev        \* the route the first run planned

tvars == <<world, template, orig, chain, call>>
evars == <<template, orig, chain, call>>
svars == <<fs>>
pvars == <<pc, args, start_node, end_node, ground, blocked, open_set, came_from,
           g_score, path, walk, paved, out, run, prev>>
vars == <<world, template, orig, chain, call, fs, pc, args, start_node, end_node,
          ground, blocked, open_set, came_from, g_score, path, walk, paved, out,
          run, prev>>

(***************************************************************************)
(* Bounds of the model.                                                    *)
(***************************************************************************)
MaxSize == 2        \* templates drawn directly have sizes in 1..MaxSize per axis
MaxX == 1           \* the scanned region spans x in 0..MaxX

(***************************************************************************)
(* Blocks and the world.                                                   *)
(***************************************************************************)
EmptyProps == [k \in {} |-> ""]

Block(ns, name, props) == [ns |-> ns, name |-> name, props |-> props]

AirBlock == Block("minecraft", "air", EmptyProps)

\* The base terrain of the level: grass on the surface layer y = 64, dirt
\* beneath it, air above.
Terrain(c) ==
    IF c[2] > 64 THEN AirBlock
    ELSE IF c[2] = 64 THEN Block("minecraft", "grass_block", [snowy |-> "false"])
    ELSE Block("minecraft", "dirt", EmptyProps)

\* level.get_version_block(x, y, z, dim, ver)
get_version_block(w, c) == IF c \in DOMAIN w THEN w[c] ELSE Terrain(c)

\* get_block: the base name only
get_block(w, c) == get_version_block(w, c).name

\* level.set_version_block(x, y, z, dim, ver, block)
set_version_block(w, c, b) == [d \in DOMAIN w \cup {c} |-> IF d = c THEN b ELSE w[d]]

\* BLOCK_ALIASES: wrong name -> right name
BLOCK_ALIASES ==
    [n \in {"tulip_red", "tulip_orange", "tulip_pink", "tulip_white",
            "oak_plank", "spruce_plank", "birch_plank", "dark_oak_plank",
            "stone_brick", "cobble", "wood"} |->
        CASE n = "tulip_red" -> "red_tulip"
          [] n = "tulip_orange" -> "orange_tulip"
          [] n = "tulip_pink" -> "pink_tulip"
          [] n = "tulip_white" -> "white_tulip"
          [] n = "oak_plank" -> "oak_planks"
          [] n = "spruce_plank" -> "spruce_planks"
          [] n = "birch_plank" -> "birch_planks"
          [] n = "dark_oak_plank" -> "dark_oak_planks"
          [] n = "stone_brick" -> "stone_bricks"
          [] n = "cobble" -> "cobblestone"
          [] n = "wood" -> "oak_planks"]

_fix_block_name(name) ==
    IF name \in DOMAIN BLOCK_ALIASES THEN BLOCK_ALIASES[name] ELSE name

\* place_block: the name is corrected, the properties (None or a dict) become
\* string tags, and the block is always written in the minecraft namespace.
place_block(w, c, block_name, properties) ==
    set_version_block(w, c, Block("minecraft", _fix_block_name(block_name), properties))

(***************************************************************************)
(* scan_structure                                                          *)
(***************************************************************************)
Min(a, b) == IF a < b THEN a ELSE b
Max(a, b) == IF a > b THEN a ELSE b

\* The i-th cell (from 1) of the triple loop x, y, z over the box lo..hi.
ScanCell(lo, hi, i) ==
    LET dy == hi[2] - lo[2] + 1
        dz == hi[3] - lo[3] + 1
    IN  << lo[1] + ((i - 1) \div (dy * dz)),
           lo[2] + (((i - 1) \div dz) % dy),
           lo[3] + ((i - 1) % dz) >>

\* One entry of the blocks list: "props" is present only when non-empty.
ScanEntry(w, lo, c) ==
    LET block == get_version_block(w, c)
        rel == << c[1] - lo[1], c[2] - lo[2], c[3] - lo[3] >>
    IN  IF block.props # EmptyProps
        THEN [pos |-> rel, name |-> block.name, props |-> block.props]
        ELSE [pos |-> rel, name |-> block.name]

RECURSIVE ScanBlocks(_, _, _, _, _)
ScanBlocks(w, lo, hi, i, n) ==
    IF i > n THEN << >>
    ELSE LET c == ScanCell(lo, hi, i)
         IN  IF get_version_block(w, c).name = "air"
             THEN ScanBlocks(w, lo, hi, i + 1, n)
             ELSE << ScanEntry(w, lo, c) >> \o ScanBlocks(w, lo, hi, i + 1, n)

\* A scan that keeps positions relative to its first corner (x1, y1, z1)
\* instead of the minimum corner.
ScanRelativeToFirstCorner(w, c1, c2) ==
    LET lo == << Min(c1[1], c2[1]), Min(c1[2], c2[2]), Min(c1[3], c2[3]) >>
        hi == << Max(c1[1], c2[1]), Max(c1[2], c2[2]), Max(c1[3], c2[3]) >>
        dx == hi[1] - lo[1] + 1
        dy == hi[2] - lo[2] + 1
        dz == hi[3] - lo[3] + 1
        blocks == ScanBlocks(w, lo, hi, 1, dx * dy * dz)
    IN  [size |-> << dx, dy, dz >>,
         block_count |-> Len(blocks),
         blocks |-> [i \in 1..Len(blocks) |->
                       [blocks[i] EXCEPT !.pos = << @[1] + lo[1] - c1[1],
                                                    @[2] + lo[2] - c1[2],
                                                    @[3] + lo[3] - c1[3] >>]],
         meta |-> [scanned_from |-> lo, scanned_to |-> hi]]

scan_structure(w, c1, c2) ==
    LET lo == << Min(c1[1], c2[1]), Min(c1[2], c2[2]), Min(c1[3], c2[3]) >>
        hi == << Max(c1[1], c2[1]), Max(c1[2], c2[2]), Max(c1[3], c2[3]) >>
        dx == hi[1] - lo[1] + 1
        dy == hi[2] - lo[2] + 1
        dz == hi[3] - lo[3] + 1
        blocks == ScanBlocks(w, lo, hi, 1, dx * dy * dz)
    IN  [size |-> << dx, dy, dz >>,
         block_count |-> Len(blocks),
         blocks |-> blocks,
         meta |-> [scanned_from |-> lo, scanned_to |-> hi]]

(***************************************************************************)
(* Rotation and mirroring (paste_structure and its helpers)                *)
(***************************************************************************)
Angles == {0, 90, 180, 270}

\* A rotation that takes the footprint for square: the quarter turns use
\* sx where sz belongs and sz where sx belongs.
RotatePosSquareOnly(rx, ry, rz, sx, sy, sz, angle) ==
    IF angle = 0 THEN << rx, ry, rz >>
    ELSE IF angle = 90 THEN << sx - 1 - rz, ry, rx >>
    ELSE IF angle = 180 THEN << sx - 1 - rx, ry, sz - 1 - rz >>
    ELSE IF angle = 270 THEN << rz, ry, sz - 1 - rx >>
    ELSE << rx, ry, rz >>

_rotate_pos(rx, ry, rz, sx, sy, sz, angle) ==
    IF angle = 0 THEN << rx, ry, rz >>
    ELSE IF angle = 90 THEN << sz - 1 - rz, ry, rx >>
    ELSE IF angle = 180 THEN << sx - 1 - rx, ry, sz - 1 - rz >>
    ELSE IF angle = 270 THEN << rz, ry, sx - 1 - rx >>
    ELSE << rx, ry, rz >>

directions == << "north", "east", "south", "west" >>

\* directions.index(facing), from 0
DirIndex(facing) == (CHOOSE i \in 1..4 : directions[i] = facing) - 1

\* A wrong modulus: the fourth direction wraps one step early.
RotateFacingMod3(facing, angle) ==
    IF \A i \in 1..4 : directions[i] # facing THEN facing
    ELSE directions[((DirIndex(facing) + (angle \div 90)) % 3) + 1]

\* The rotation taken in the opposite sense.
RotateFacingBackwards(facing, angle) ==
    IF \A i \in 1..4 : directions[i] # facing THEN facing
    ELSE directions[((DirIndex(facing) + 4 - (angle \div 90)) % 4) + 1]

_rotate_facing(facing, angle) ==
    IF \A i \in 1..4 : directions[i] # facing THEN facing
    ELSE directions[((DirIndex(facing) + (angle \div 90)) % 4) + 1]

\* An axis rotation that also swaps on the half turn.
RotateAxisAnyTurn(axis, angle) ==
    IF angle \in {90, 180, 270}
    THEN (IF axis = "x" THEN "z" ELSE IF axis = "z" THEN "x" ELSE axis)
    ELSE axis

_rotate_axis(axis, angle) ==
    IF angle \in {90, 270}
    THEN (IF axis = "x" THEN "z" ELSE IF axis = "z" THEN "x" ELSE axis)
    ELSE axis

\* The mirror branch with its elif lost: west is never turned back to east.
MirrorFacingEastOnly(f) == IF f = "east" THEN "west" ELSE f

\* The facing swap of the mirror branch of paste_structure.
MirrorFacing(f) ==
    IF f = "east" THEN "west" ELSE IF f = "west" THEN "east" ELSE f

\* entry.get("props", {})
EntryProps(entry) == IF "props" \in DOMAIN entry THEN entry.props ELSE EmptyProps

\* props with props[key] replaced by v (key is present)
SetProp(props, key, v) == [k \in DOMAIN props |-> IF k = key THEN v ELSE props[k]]

\* The loop body with its two steps in the other order: the rotation first,
\* the mirror second, on the footprint the rotation produced.
RotateThenMirror(entry, size, rotate, mirror) ==
    LET props0 == EntryProps(entry)
        pos1 == _rotate_pos(entry.pos[1], entry.pos[2], entry.pos[3],
                            size[1], size[2], size[3], rotate)
        props1 == IF "facing" \in DOMAIN props0
                  THEN SetProp(props0, "facing", _rotate_facing(props0["facing"], rotate))
                  ELSE props0
        props2 == IF "axis" \in DOMAIN props1
                  THEN SetProp(props1, "axis", _rotate_axis(props1["axis"], rotate))
                  ELSE props1
        width == IF rotate \in {90, 270} THEN size[3] ELSE size[1]
        pos3 == IF mirror THEN << width - 1 - pos1[1], pos1[2], pos1[3] >> ELSE pos1
        props3 == IF mirror /\ "facing" \in DOMAIN props2
                  THEN SetProp(props2, "facing", MirrorFacing(props2["facing"]))
                  ELSE props2
    IN  [pos |-> pos3, name |-> entry.name, props |-> props3]

\* One pass of the loop body of paste_structure up to the place_block call:
\* the relative position, name and properties handed to place_block.
TransformEntry(entry, size, rotate, mirror) ==
    LET sx == size[1]
        sy == size[2]
        sz == size[3]
        props0 == EntryProps(entry)
        rx1 == IF mirror THEN sx - 1 - entry.pos[1] ELSE entry.pos[1]
        props1 == IF mirror /\ "facing" \in DOMAIN props0
                  THEN SetProp(props0, "facing", MirrorFacing(props0["facing"]))
                  ELSE props0
        pos2 == _rotate_pos(rx1, entry.pos[2], entry.pos[3], sx, sy, sz, rotate)
        props2 == IF "facing" \in DOMAIN props1
                  THEN SetProp(props1, "facing", _rotate_facing(props1["facing"], rotate))
                  ELSE props1
        props3 == IF "axis" \in DOMAIN props2
                  THEN SetProp(props2, "axis", _rotate_axis(props2["axis"], rotate))
                  ELSE props2
    IN  [pos |-> pos2, name |-> entry.name, props |-> props3]

Plus(o, r) == << o[1] + r[1], o[2] + r[2], o[3] + r[3] >>

\* The place_block calls of paste_structure, in order: where, what.
PasteWrites(t, origin, rotate, mirror) ==
    [i \in 1..Len(t.blocks) |->
        LET e == TransformEntry(t.blocks[i], t.size, rotate, mirror)
        IN  [at |-> Plus(origin, e.pos), name |-> e.name, props |-> e.props]]

RECURSIVE ApplyWrites(_, _, _)
ApplyWrites(w, writes, i) ==
    IF i > Len(writes) THEN w
    ELSE ApplyWrites(place_block(w, writes[i].at, writes[i].name, writes[i].props),
                     writes, i + 1)

\* A paste that first empties the bounding box it is about to fill.
PasteClearingBox(w, t, origin, rotate, mirror) ==
    LET writes == PasteWrites(t, origin, rotate, mirror)
        size == IF rotate \in {90, 270} THEN << t.size[3], t.size[2], t.size[1] >>
                ELSE t.size
        box == {Plus(origin, r) :
                   r \in (0..(size[1] - 1)) \X (0..(size[2] - 1)) \X (0..(size[3] - 1))}
        cleared == [c \in DOMAIN w \cup box |-> IF c \in box THEN AirBlock ELSE w[c]]
    IN  [world |-> ApplyWrites(cleared, writes, 1), err |-> "none",
         written |-> Len(writes), count |-> Len(writes)]

\* How many entries the loop of paste_structure gets through: it stops
\* (KeyError) at the first entry without "pos" or without "name".
RECURSIVE GoodPrefix(_, _)
GoodPrefix(blocks, i) ==
    IF i > Len(blocks) THEN Len(blocks)
    ELSE IF "pos" \notin DOMAIN blocks[i] \/ "name" \notin DOMAIN blocks[i] THEN i - 1
    ELSE GoodPrefix(blocks, i + 1)

\* paste_structure: the world it leaves, the number of place_block calls it
\* made (written) and, when it returns, the count returned; template["size"],
\* template["blocks"], entry["pos"] and entry["name"] raise KeyError when
\* the key is missing.
paste_structure(w, t, origin, rotate, mirror) ==
    IF "size" \notin DOMAIN t \/ "blocks" \notin DOMAIN t
    THEN [world |-> w, err |-> "KeyError", written |-> 0]
    ELSE LET n == GoodPrefix(t.blocks, 1)
             writes == PasteWrites([t EXCEPT !.blocks = SubSeq(t.blocks, 1, n)],
                                   origin, rotate, mirror)
         IN  IF n < Len(t.blocks)
             THEN [world |-> ApplyWrites(w, writes, 1), err |-> "KeyError", written |-> n]
             ELSE [world |-> ApplyWrites(w, writes, 1), err |-> "none", written |-> n,
                   count |-> n]

\* The template a transform yields: every entry re-derived as paste_structure
\* derives it, the footprint swapped by a quarter turn.
TransformTemplate(t, rotate, mirror) ==
    [t EXCEPT
        !.size = IF rotate \in {90, 270} THEN << t.size[3], t.size[2], t.size[1] >>
                 ELSE t.size,
        !.blocks = [i \in 1..Len(t.blocks) |->
            LET e == TransformEntry(t.blocks[i], t.size, rotate, mirror)
            IN  IF "props" \in DOMAIN t.blocks[i]
                THEN [pos |-> e.pos, name |-> e.name, props |-> e.props]
                ELSE [pos |-> e.pos, name |-> e.name]]]

(***************************************************************************)
(* The template engine as a state machine                                  *)
(***************************************************************************)
NoEdits == [c \in {} |-> AirBlock]

NoFiles == [p \in {} |-> [kind |-> "dir"]]

NoMap == [n \in {} |-> 0]

NoRun == [level |-> NoEdits, ground |-> NoMap, blocked |-> {}, path |-> << >>]

\* No call of build_smart_path has been made.
NoPlan ==
    /\ args = [start |-> << 0, 0 >>, end |-> << 0, 0 >>, width |-> 2,
               block |-> "stone_bricks"]
    /\ start_node = << 0, 0 >>
    /\ end_node = << 0, 0 >>
    /\ ground = NoMap
    /\ blocked = {}
    /\ open_set = {}
    /\ came_from = NoMap
    /\ g_score = NoMap
    /\ path = << >>
    /\ walk = << 0, 0 >>
    /\ paved = 0
    /\ out = [log |-> << >>]
    /\ run = 0
    /\ prev = NoRun

\* build_smart_path is not in use.
PathOff == pc = "off" /\ NoPlan

NoTemplate == [size |-> << 0, 0, 0 >>, block_count |-> 0, blocks |-> << >>]

Dirs == {"north", "east", "south", "west"}

\* The attribute maps of the blocks drawn into templates.
DrawnProps ==
    {EmptyProps, [facing |-> "east", half |-> "top"]}
    \cup {[facing |-> d] : d \in Dirs \cup {"up"}}
    \cup {[axis |-> a] : a \in {"x", "y", "z"}}

DrawnName(props) ==
    IF "facing" \in DOMAIN props THEN "oak_stairs"
    ELSE IF "axis" \in DOMAIN props THEN "oak_log"
    ELSE "stone"

DrawnEntry(pos, props) ==
    IF props = EmptyProps THEN [pos |-> pos, name |-> DrawnName(props)]
    ELSE [pos |-> pos, name |-> DrawnName(props), props |-> props]

BoxCells(size) == (0..(size[1] - 1)) \X (0..(size[2] - 1)) \X (0..(size[3] - 1))

\* The place of a relative coordinate in the scan order of its box.
ScanIndex(size, pos) == (pos[1] * size[2] + pos[2]) * size[3] + pos[3]

\* Templates as scan_structure returns them (and load_template reads them
\* back): one block with any of the drawn attribute maps, alone or with a
\* second, plain block, in scan order.
DrawnTemplates ==
    LET Sizes == (1..MaxSize) \X (1..MaxSize) \X (1..MaxSize)
        Make(size, blocks) ==
            [size |-> size, block_count |-> Len(blocks), blocks |-> blocks,
             meta |-> [scanned_from |-> << 0, 65, 0 >>,
                       scanned_to |-> << size[1] - 1, size[2] + 64, size[3] - 1 >>]]
        One(size) ==
            {Make(size, << DrawnEntry(p, pr) >>) : p \in BoxCells(size), pr \in DrawnProps}
        Two(size) ==
            {Make(size,
                  IF ScanIndex(size, pq[1]) < ScanIndex(size, pq[2])
                  THEN << DrawnEntry(pq[1], pr), DrawnEntry(pq[2], EmptyProps) >>
                  ELSE << DrawnEntry(pq[2], EmptyProps), DrawnEntry(pq[1], pr) >>) :
                pq \in {x \in BoxCells(size) \X BoxCells(size) : x[1] # x[2]},
                pr \in DrawnProps}
    IN  UNION {One(size) \cup Two(size) : size \in Sizes}

\* The region of the level that is scanned: the surface layer and the layer
\* above it.
Region == (0..MaxX) \X (64..65) \X (0..1)

WorldPalette ==
    {AirBlock,
     Block("minecraft", "stone", EmptyProps),
     Block("minecraft", "oak_stairs", [facing |-> "east", half |-> "bottom"]),
     Block("minecraft", "oak_log", [axis |-> "x"])}

\* The levels scanned: the terrain, bare or with one cell of the region changed.
ScanWorlds ==
    {NoEdits} \cup
    {[d \in {cb[1]} |-> cb[2]] :
        cb \in {x \in Region \X WorldPalette : x[2] # Terrain(x[1])}}

InitTransform ==
    /\ world = NoEdits
    /\ template \in DrawnTemplates
    /\ orig = template
    /\ chain = << >>
    /\ call = [op |-> "load"]
    /\ fs = NoFiles
    /\ PathOff

InitTemplate ==
    /\ world \in ScanWorlds
    /\ template = NoTemplate
    /\ orig = NoTemplate
    /\ chain = << >>
    /\ call = [op |-> "none"]
    /\ fs = NoFiles
    /\ PathOff

\* scan_structure(level, x1, y1, z1, x2, y2, z2, dim, ver)
Scan(c1, c2) ==
    /\ call.op = "none"
    /\ template' = scan_structure(world, c1, c2)
    /\ orig' = template'
    /\ call' = [op |-> "scan", c1 |-> c1, c2 |-> c2]
    /\ UNCHANGED <<world, chain, svars, pvars>>

\* One quarter turn of the template in hand.
Rotate90 ==
    /\ call.op = "load"
    /\ Len(chain) < 4
    /\ \A i \in 1..Len(chain) : chain[i] = "rotate90"
    /\ template' = TransformTemplate(template, 90, FALSE)
    /\ chain' = Append(chain, "rotate90")
    /\ UNCHANGED <<world, orig, call, svars, pvars>>

\* One mirroring of the template in hand.
Mirror ==
    /\ call.op = "load"
    /\ Len(chain) < 2
    /\ \A i \in 1..Len(chain) : chain[i] = "mirror"
    /\ template' = TransformTemplate(template, 0, TRUE)
    /\ chain' = Append(chain, "mirror")
    /\ UNCHANGED <<world, orig, call, svars, pvars>>

\* paste_structure(level, template, x, y, z, dim, ver, rotate, mirror)
Paste(origin, rotate, mirror) ==
    /\ call.op \in {"load", "scan"}
    /\ chain = << >>
    /\ LET r == paste_structure(world, template, origin, rotate, mirror)
       IN  /\ world' = r.world
           /\ call' = IF r.err = "none"
                      THEN [op |-> "paste", origin |-> origin, rotate |-> rotate,
                            mirror |-> mirror, err |-> "none", written |-> r.written,
                            count |-> r.count,
                            writes |-> PasteWrites(template, origin, rotate, mirror),
                            before |-> world, after |-> call]
                      ELSE [op |-> "paste", origin |-> origin, rotate |-> rotate,
                            mirror |-> mirror, err |-> r.err, written |-> r.written,
                            before |-> world, after |-> call]
    /\ UNCHANGED <<template, orig, chain, svars, pvars>>

\* Where templates are pasted: a scanned one at the first corner of its scan
\* or at a fixed place, a drawn one at a fixed place, all above the surface.
PasteOrigins ==
    IF call.op = "scan" THEN {call.c1, << 1, 65, 0 >>} ELSE {<< 0, 65, 0 >>}

NextTransform ==
    \/ Rotate90
    \/ Mirror
    \/ \E origin \in PasteOrigins, rotate \in Angles, mirror \in BOOLEAN :
          Paste(origin, rotate, mirror)

NextTemplate ==
    \/ \E c1 \in Region, c2 \in Region : Scan(c1, c2)
    \/ \E origin \in PasteOrigins, rotate \in Angles, mirror \in BOOLEAN :
          Paste(origin, rotate, mirror)

SpecTransform == InitTransform /\ [][NextTransform]_vars
SpecTemplate == InitTemplate /\ [][NextTemplate]_vars

(***************************************************************************)
(* Claims about the template engine                                        *)
(***************************************************************************)
\* The cells of the box spanned by two corners.
BoxBetween(c1, c2) ==
    (Min(c1[1], c2[1])..Max(c1[1], c2[1]))
        \X (Min(c1[2], c2[2])..Max(c1[2], c2[2]))
        \X (Min(c1[3], c2[3])..Max(c1[3], c2[3]))

\* A scan of corners a, b followed by an untransformed paste at a.
PastedBackAtFirstCorner ==
    /\ call.op = "paste"
    /\ call.after.op = "scan"
    /\ call.rotate = 0
    /\ ~call.mirror
    /\ call.origin = call.after.c1

\* C1: capturing the box [a,b] and pasting the capture, untransformed, at
\* origin a leaves every cell of the box with the content (identifier and
\* attributes) it had before, for any two corners a and b.
C1_RoundTrip ==
    PastedBackAtFirstCorner =>
        \A c \in BoxBetween(call.after.c1, call.after.c2) :
            get_version_block(world, c) = get_version_block(call.before, c)

SamePlacesAndAttributes(t, u) ==
    /\ t.size = u.size
    /\ Len(t.blocks) = Len(u.blocks)
    /\ \A i \in 1..Len(t.blocks) :
          /\ t.blocks[i].pos = u.blocks[i].pos
          /\ EntryProps(t.blocks[i]) = EntryProps(u.blocks[i])

FourQuarterTurns == << "rotate90", "rotate90", "rotate90", "rotate90" >>

\* C2: four successive quarter turns, each on the footprint the previous
\* one produced, give the template back: every entry has its original
\* relative position and attribute values, facing and axis included.
C2_RotationClosure ==
    chain = FourQuarterTurns => SamePlacesAndAttributes(template, orig)

\* C2 on a non-square footprint holding a block with a horizontal facing.
C2_Witness ==
    /\ chain = FourQuarterTurns
    /\ orig.size[1] # orig.size[3]
    /\ \E i \in 1..Len(orig.blocks) :
          /\ "facing" \in DOMAIN EntryProps(orig.blocks[i])
          /\ EntryProps(orig.blocks[i])["facing"] = "west"
    /\ SamePlacesAndAttributes(template, orig)

\* C3: mirroring twice gives the template back: every entry has its
\* original relative position and attribute values.
C3_MirrorInvolution ==
    chain = << "mirror", "mirror" >> => SamePlacesAndAttributes(template, orig)

\* C3 on a template wider than one cell holding an east-facing block.
C3_Witness ==
    /\ chain = << "mirror", "mirror" >>
    /\ orig.size[1] > 1
    /\ \E i \in 1..Len(orig.blocks) :
          /\ "facing" \in DOMAIN EntryProps(orig.blocks[i])
          /\ EntryProps(orig.blocks[i])["facing"] = "east"
    /\ SamePlacesAndAttributes(template, orig)

\* The cycle north -> east -> south -> west -> north, taken k times.
RECURSIVE Clockwise(_, _)
Clockwise(f, k) ==
    IF k = 0 THEN f
    ELSE Clockwise(CASE f = "north" -> "east"
                     [] f = "east" -> "south"
                     [] f = "south" -> "west"
                     [] f = "west" -> "north", k - 1)

EastWestSwapped(f) ==
    CASE f = "east" -> "west"
      [] f = "west" -> "east"
      [] f = "north" -> "north"
      [] f = "south" -> "south"

\* The facing of the cell written for entry i of the pasted template.
PastedFacing(i) == get_version_block(world, call.writes[i].at).props["facing"]

HasHorizontalFacing(entry) ==
    /\ "facing" \in DOMAIN EntryProps(entry)
    /\ EntryProps(entry)["facing"] \in Dirs

\* C4: an entry facing north, east, south or west is pasted, under rotation
\* r without mirroring, with its facing advanced r/90 steps in the cycle
\* north -> east -> south -> west; under mirroring without rotation east and
\* west are exchanged and north and south are kept.
C4_FacingCorrect ==
    call.op = "paste" =>
        \A i \in 1..Len(template.blocks) :
            (/\ HasHorizontalFacing(template.blocks[i])
             /\ \A j \in (i + 1)..Len(template.blocks) :
                   call.writes[j].at # call.writes[i].at)
            => LET f == EntryProps(template.blocks[i])["facing"]
               IN  /\ ~call.mirror => PastedFacing(i) = Clockwise(f, call.rotate \div 90)
                   /\ (call.mirror /\ call.rotate = 0) => PastedFacing(i) = EastWestSwapped(f)

\* C4: a north-facing entry pasted under a quarter turn faces east.
C4_Witness ==
    /\ call.op = "paste"
    /\ call.rotate = 90
    /\ ~call.mirror
    /\ \E i \in 1..Len(template.blocks) :
          /\ HasHorizontalFacing(template.blocks[i])
          /\ EntryProps(template.blocks[i])["facing"] = "north"
          /\ PastedFacing(i) = "east"

(***************************************************************************)
(* The template store (save_template, load_template)                       *)
(*                                                                         *)
(* A path string is [root, name]: root "rel" for a relative path (resolved *)
(* against the working directory when opened), "abs" for an absolute one,  *)
(* "TEMPLATES_DIR" for a path inside the template directory; name is the   *)
(* file name as its dot-separated parts, so that name + ".json" is         *)
(* Append(name, "json").  The working directory is not the template        *)
(* directory.                                                              *)
(***************************************************************************)
Rel(name) == [root |-> "rel", name |-> name]
Abs(name) == [root |-> "abs", name |-> name]
NoArg == [root |-> "None", name |-> << >>]

TEMPLATES_DIR == "TEMPLATES_DIR"

\* os.path.isabs
isabs(p) == p.root # "rel"

\* os.path.join(TEMPLATES_DIR, p): an absolute second part replaces the first
JoinTemplatesDir(p) == IF isabs(p) THEN p ELSE [root |-> TEMPLATES_DIR, name |-> p.name]

\* p + ".json"
DotJson(p) == [p EXCEPT !.name = Append(@, "json")]

\* os.path.exists: files and directories alike
exists(f, p) == p \in DOMAIN f

Dir == [kind |-> "dir"]
File(text) == [kind |-> "file", text |-> text]

\* json.dump of a list of ints
DumpInts(seq) == [arr |-> [i \in 1..Len(seq) |-> [num |-> seq[i]]]]

\* json.dump of a str -> str dict
DumpProps(props) == [obj |-> {<< k, [str |-> props[k]] >> : k \in DOMAIN props}]

\* json.dump of one entry of blocks, with the keys it has
DumpEntry(e) ==
    [obj |-> {<< k, CASE k = "pos" -> DumpInts(e.pos)
                      [] k = "name" -> [str |-> e.name]
                      [] k = "props" -> DumpProps(e.props) >> : k \in DOMAIN e}]

\* json.dump(template, f, indent=2): the document written, a JSON object as
\* its set of members, arrays as sequences, numbers and strings tagged.
json_dump(t) ==
    [obj |-> {<< k, CASE k = "size" -> DumpInts(t.size)
                      [] k = "block_count" -> [num |-> t.block_count]
                      [] k = "blocks" ->
                            [arr |-> [i \in 1..Len(t.blocks) |-> DumpEntry(t.blocks[i])]]
                      [] k = "meta" ->
                            [obj |-> {<< m, DumpInts(t.meta[m]) >> : m \in DOMAIN t.meta}]
               >> : k \in DOMAIN t}]

\* json.load: objects become dicts, arrays lists, numbers ints, strings strs
RECURSIVE json_load(_)
json_load(j) ==
    IF "num" \in DOMAIN j THEN j.num
    ELSE IF "str" \in DOMAIN j THEN j.str
    ELSE IF "arr" \in DOMAIN j THEN [i \in 1..Len(j.arr) |-> json_load(j.arr[i])]
    ELSE [k \in {m[1] : m \in j.obj} |->
             json_load((CHOOSE m \in j.obj : m[1] = k)[2])]

\* open(filepath, "r") opened for writing and reading by mistake: a missing
\* file is created empty, and json.load then finds no document in it.
OpenReadCreating(f, p) ==
    IF ~exists(f, p) THEN [err |-> "JSONDecodeError"]
    ELSE IF f[p].kind = "dir" THEN [err |-> "IsADirectoryError"]
    ELSE [err |-> "none", text |-> f[p].text]

\* open(filepath, "r")
OpenRead(f, p) ==
    IF ~exists(f, p) THEN [err |-> "FileNotFoundError"]
    ELSE IF f[p].kind = "dir" THEN [err |-> "IsADirectoryError"]
    ELSE [err |-> "none", text |-> f[p].text]

\* The path save_template writes: filepath, or name + ".json" in the
\* template directory, the name made from the clock when none is given.
SavePath(filepath, name) ==
    IF filepath = NoArg
    THEN JoinTemplatesDir(DotJson(IF name = NoArg THEN Rel(<< "template_now" >>) ELSE name))
    ELSE filepath

\* save_template(template, filepath, name): the file system after it, the
\* error raised ("none": it returned the path)
save_template(f, t, filepath, name) ==
    LET opened_path == SavePath(filepath, name)
    IN  IF exists(f, opened_path) /\ f[opened_path].kind = "dir"
        THEN [fs |-> f, err |-> "IsADirectoryError", path |-> opened_path]
        ELSE [fs |-> [q \in DOMAIN f \cup {opened_path} |->
                         IF q = opened_path THEN File(json_dump(t)) ELSE f[q]],
              err |-> "none", path |-> opened_path]

\* The path load_template opens.
LoadPath(f, filepath) ==
    IF ~isabs(filepath)
    THEN LET candidate == JoinTemplatesDir(filepath)
         IN  IF exists(f, candidate) THEN candidate
             ELSE IF exists(f, DotJson(candidate)) THEN DotJson(candidate)
             ELSE filepath
    ELSE filepath

\* load_template(filepath): the error raised, or the template returned
load_template(f, filepath) ==
    LET opened_path == LoadPath(f, filepath)
        opened == OpenRead(f, opened_path)
    IN  IF opened.err # "none" THEN [err |-> opened.err, path |-> opened_path]
        ELSE LET t == json_load(opened.text)
             IN  IF "size" \notin DOMAIN t \/ "block_count" \notin DOMAIN t
                 THEN [err |-> "KeyError", path |-> opened_path]
                 ELSE [err |-> "none", path |-> opened_path, template |-> t]

(***************************************************************************)
(* The store as a state machine                                            *)
(***************************************************************************)
\* The keys templates are saved and loaded under: k, k.json and /k.
StoreKeys == {Rel(<< "k" >>), Rel(<< "k", "json" >>), Abs(<< "k" >>)}

\* The templates saved: scans of the bare terrain and of a block on it.
StoreTemplates ==
    {scan_structure(NoEdits, << 0, 64, 0 >>, << 0, 65, 1 >>),
     scan_structure([c \in {<< 0, 65, 0 >>} |->
                         Block("minecraft", "oak_stairs", [facing |-> "east"])],
                    << 1, 65, 0 >>, << 0, 65, 0 >>),
     scan_structure(NoEdits, << 0, 65, 0 >>, << 0, 65, 0 >>)}

\* What a file left by an earlier save holds.
OtherTemplate == scan_structure(NoEdits, << 5, 63, 5 >>, << 5, 64, 5 >>)

\* The file systems the store starts from: any of the paths a key can
\* resolve to may hold an earlier template file, and some a directory.
StoreFileSystems ==
    LET InDir(name) == [root |-> TEMPLATES_DIR, name |-> name]
        FileOnly == {InDir(<< "k", "json", "json" >>), Rel(<< "k", "json" >>),
                     Abs(<< "k" >>), Abs(<< "k", "json" >>)}
        FileOrDir == {InDir(<< "k" >>), InDir(<< "k", "json" >>), Rel(<< "k" >>)}
        Kinds(p) == IF p \in FileOrDir THEN {File(json_dump(OtherTemplate)), Dir}
                    ELSE {File(json_dump(OtherTemplate))}
    IN  UNION {{g \in [D -> {File(json_dump(OtherTemplate)), Dir}] :
                    \A p \in D : g[p] \in Kinds(p)} :
               D \in SUBSET (FileOnly \cup FileOrDir)}

InitStore ==
    /\ world = NoEdits
    /\ template = NoTemplate
    /\ orig = NoTemplate
    /\ chain = << >>
    /\ call = [op |-> "none"]
    /\ fs \in StoreFileSystems
    /\ PathOff

\* save_template(template, filepath=filepath, name=name)
Save(t, filepath, name) ==
    /\ call.op = "none"
    /\ LET r == save_template(fs, t, filepath, name)
       IN  /\ fs' = r.fs
           /\ call' = [op |-> "save", template |-> t, filepath |-> filepath,
                       name |-> name, err |-> r.err, path |-> r.path]
    /\ UNCHANGED <<world, template, orig, chain, pvars>>

\* load_template(filepath)
Load(filepath) ==
    /\ call.op \in {"none", "save"}
    /\ LET r == load_template(fs, filepath)
       IN  /\ template' = IF r.err = "none" THEN r.template ELSE template
           /\ orig' = template'
           /\ call' = [op |-> "load", filepath |-> filepath, err |-> r.err,
                       path |-> r.path, result |-> r, before |-> fs, after |-> call]
    /\ UNCHANGED <<world, chain, fs, pvars>>

NextStore ==
    \/ \E t \in StoreTemplates, name \in StoreKeys \cup {NoArg} : Save(t, NoArg, name)
    \/ \E t \in StoreTemplates : Save(t, Rel(<< "k", "json" >>), NoArg)
    \/ \E filepath \in StoreKeys : Load(filepath)

SpecStore == InitStore /\ [][NextStore]_vars

(***************************************************************************)
(* Claims about the template store                                         *)
(***************************************************************************)
\* A template saved under a key (a name, not an absolute path) by name, then
\* loaded by that key.
SavedThenLoaded ==
    /\ call.op = "load"
    /\ call.after.op = "save"
    /\ call.after.err = "none"
    /\ call.after.filepath = NoArg
    /\ call.after.name # NoArg
    /\ ~isabs(call.after.name)
    /\ call.filepath = call.after.name

\* C8: a template saved with save_template(name=k) and loaded with
\* load_template(k) comes back structurally equal, whatever other files the
\* template directory already holds.
C8_StoreRoundTrip ==
    SavedThenLoaded =>
        /\ call.err = "none"
        /\ "template" \in DOMAIN call.result
        /\ call.result.template = call.after.template

IsFile(f, p) == exists(f, p) /\ f[p].kind = "file"

\* The key names no existing file as an absolute path and none in the
\* template directory, with or without the .json suffix.
NamesNoFile(f, key) ==
    IF isabs(key) THEN ~IsFile(f, key)
    ELSE /\ ~IsFile(f, JoinTemplatesDir(key))
         /\ ~IsFile(f, DotJson(JoinTemplatesDir(key)))

\* Nothing, file or directory, exists at the key as it is given (absolute,
\* or relative to the working directory) nor, for a relative key, under it
\* in the template directory, with or without the .json suffix.
NamesNothing(f, key) ==
    /\ ~exists(f, key)
    /\ ~isabs(key) =>
          /\ ~exists(f, JoinTemplatesDir(key))
          /\ ~exists(f, DotJson(JoinTemplatesDir(key)))

\* C9 as stated: load_template fails with a not-found error, and returns no
\* template, whenever the key names no existing file as an absolute path
\* and none in the template directory (with or without .json).
C9_NotFoundAsStated ==
    (call.op = "load" /\ NamesNoFile(call.before, call.filepath)) =>
        /\ call.err = "FileNotFoundError"
        /\ "template" \notin DOMAIN call.result

\* C9: load_template fails with FileNotFoundError, and returns no template,
\* whenever nothing exists at the key as given (absolute, or relative to the
\* working directory) nor, for a relative key, in the template directory
\* under the key with or without the .json suffix.
C9_NotFound ==
    (call.op = "load" /\ NamesNothing(call.before, call.filepath)) =>
        /\ call.err = "FileNotFoundError"
        /\ "template" \notin DOMAIN call.result

\* C9: a load of a key that nothing answers to, other files being there.
C9_Witness ==
    /\ call.op = "load"
    /\ NamesNothing(call.before, call.filepath)
    /\ \E p \in DOMAIN call.before : p.root = TEMPLATES_DIR
    /\ call.err = "FileNotFoundError"

(***************************************************************************)
(* The path planner: build_smart_path and scan_ground.  A column is        *)
(* <<x, z>>.  Costs are kept in thousandths (1.0 is 1000, 1.414 is 1414),  *)
(* so that sums and comparisons are integer; the source adds the same      *)
(* quantities as floats.                                                   *)
(***************************************************************************)

NATURAL_GROUND ==
    {"grass_block", "dirt", "coarse_dirt", "podzol", "mycelium", "stone",
     "granite", "diorite", "andesite", "deepslate", "sand", "red_sand",
     "gravel", "clay", "mud", "soul_sand", "soul_soil", "sandstone",
     "red_sandstone", "terracotta", "calcite", "tuff", "snow_block", "ice",
     "packed_ice", "blue_ice", "netherrack", "basalt", "blackstone",
     "end_stone", "bedrock", "moss_block"}

BUILDING_BLOCKS ==
    {"oak_planks", "spruce_planks", "birch_planks", "dark_oak_planks",
     "jungle_planks", "acacia_planks", "mangrove_planks", "cherry_planks",
     "crimson_planks", "warped_planks", "bamboo_planks", "oak_stairs",
     "spruce_stairs", "birch_stairs", "dark_oak_stairs", "jungle_stairs",
     "acacia_stairs", "stone_stairs", "stone_brick_stairs",
     "cobblestone_stairs", "brick_stairs", "sandstone_stairs", "oak_slab",
     "spruce_slab", "birch_slab", "dark_oak_slab", "stone_slab",
     "stone_brick_slab", "cobblestone_slab", "brick_slab", "oak_log",
     "spruce_log", "birch_log", "dark_oak_log", "jungle_log", "acacia_log",
     "mangrove_log", "cherry_log", "stripped_oak_log",
     "stripped_spruce_log", "stripped_birch_log", "stripped_dark_oak_log",
     "stripped_jungle_log", "stripped_acacia_log", "oak_wood",
     "spruce_wood", "birch_wood", "dark_oak_wood", "oak_leaves",
     "spruce_leaves", "birch_leaves", "dark_oak_leaves", "jungle_leaves",
     "acacia_leaves", "azalea_leaves", "glass", "glass_pane",
     "white_stained_glass", "light_gray_stained_glass",
     "light_blue_stained_glass", "cyan_stained_glass",
     "orange_stained_glass", "stone_bricks", "mossy_stone_bricks",
     "cracked_stone_bricks", "bricks", "cobblestone", "mossy_cobblestone",
     "polished_granite", "polished_diorite", "polished_andesite",
     "smooth_stone", "smooth_stone_slab", "iron_block", "gold_block",
     "diamond_block", "white_concrete", "light_gray_concrete",
     "white_terracotta", "orange_terracotta", "light_gray_terracotta",
     "white_wool", "light_gray_wool", "crafting_table", "furnace", "chest",
     "barrel", "bookshelf", "lantern", "torch", "wall_torch", "campfire",
     "sea_lantern", "glowstone", "iron_door", "oak_door", "spruce_door",
     "birch_door", "dark_oak_door", "oak_fence", "spruce_fence",
     "birch_fence", "dark_oak_fence", "oak_fence_gate",
     "spruce_fence_gate", "ladder", "scaffolding", "polished_blackstone",
     "polished_blackstone_bricks", "deepslate_bricks",
     "polished_deepslate", "quartz_block", "quartz_pillar", "smooth_quartz"}

FLOWERS ==
    {"poppy", "dandelion", "blue_orchid", "allium", "azure_bluet",
     "cornflower", "lily_of_the_valley", "oxeye_daisy", "red_tulip",
     "orange_tulip", "pink_tulip", "white_tulip"}

\* the plants scan_ground looks through (the tuple of its third test)
Vegetation ==
    {"short_grass", "tall_grass", "fern", "large_fern", "dead_bush",
     "sweet_berry_bush", "seagrass", "sugar_cane", "bamboo", "vine", "kelp",
     "brown_mushroom", "red_mushroom"}

ScanTop == 100      \* range(100, 30, -1): the first y scan_ground reads
ScanBottom == 30    \* range(100, 30, -1): the y it stops above
RadiusPad == 5      \* radius = ... // 2 + 5
DefaultY == 64      \* ground.get(node, 64)
StraightCost == 1000    \* move_cost 1.0
DiagonalCost == 1414    \* move_cost 1.414
HeightFactor == 3       \* height_cost = abs(next_y - curr_y) * 3

ScanMargin == 1     \* the box reaches this far beyond start and end (20 in the source)
MaxSpan == 2        \* the goal lies within this distance of the start on each axis

abs(n) == IF n < 0 THEN -n ELSE n

\* The tests of scan_ground without the one for building blocks.
LooksThroughButBuilt(bid) ==
    \/ bid = "air" \/ bid = "water"
    \/ bid \in Vegetation \/ bid \in FLOWERS

\* Does scan_ground pass over this block (one of its four "continue" tests)?
LooksThrough(bid) ==
    \/ bid = "air" \/ bid = "water"
    \/ bid \in BUILDING_BLOCKS
    \/ bid \in Vegetation \/ bid \in FLOWERS

\* The inner loop of scan_ground on one column, from y downwards:
\* {} when the band holds no ground, else {the y recorded}.
RECURSIVE ColumnGround(_, _, _, _)
ColumnGround(w, x, z, y) ==
    IF y <= ScanBottom THEN {}
    ELSE IF LooksThrough(get_block(w, << x, y, z >>))
         THEN ColumnGround(w, x, z, y - 1)
         ELSE {y}

\* The columns scan_ground visits: range(cx - radius, cx + radius) on both axes.
ScanSquare(cx, cz, radius) ==
    (cx - radius .. cx + radius - 1) \X (cz - radius .. cz + radius - 1)

\* scan_ground(level, cx, cz, dim, ver, radius): the height map
scan_ground(w, cx, cz, radius) ==
    LET found == {<< c, ColumnGround(w, c[1], c[2], ScanTop) >> :
                     c \in ScanSquare(cx, cz, radius)}
        hit == {p \in found : p[2] # {}}
    IN  [c \in {p[1] : p \in hit} |->
            CHOOSE y \in (ScanBottom + 1) .. ScanTop : << c, {y} >> \in hit]

\* min_x, max_x, min_z, max_z of build_smart_path
PathBox(s, e) ==
    [min_x |-> Min(s[1], e[1]) - ScanMargin, max_x |-> Max(s[1], e[1]) + ScanMargin,
     min_z |-> Min(s[2], e[2]) - ScanMargin, max_z |-> Max(s[2], e[2]) + ScanMargin]

\* the radius build_smart_path scans with
PathRadius(s, e) ==
    LET b == PathBox(s, e)
    IN  (Max(abs(b.max_x - b.min_x), abs(b.max_z - b.min_z)) \div 2) + RadiusPad

\* the height map build_smart_path plans on
PathGround(w, s, e) ==
    scan_ground(w, (s[1] + e[1]) \div 2, (s[2] + e[2]) \div 2, PathRadius(s, e))

\* The blocked set: the columns of the box with no ground, or with a
\* building block in the five cells above their ground.
BlockedColumns(w, g, s, e) ==
    LET b == PathBox(s, e)
    IN  {c \in (b.min_x .. b.max_x) \X (b.min_z .. b.max_z) :
            \/ c \notin DOMAIN g
            \/ \E dy \in 1..5 :
                   get_block(w, << c[1], g[c] + dy, c[2] >>) \in BUILDING_BLOCKS}

\* heuristic(a, b), in thousandths
heuristic(a, b) == (abs(a[1] - b[1]) + abs(a[2] - b[2])) * StraightCost

neighbors ==
    << << -1, 0 >>, << 1, 0 >>, << 0, -1 >>, << 0, 1 >>,
       << -1, -1 >>, << -1, 1 >>, << 1, -1 >>, << 1, 1 >> >>

\* ground.get(node, 64)
GroundGet(g, n) == IF n \in DOMAIN g THEN g[n] ELSE DefaultY

\* (f1, n1) < (f2, n2) as python compares the heap's tuples
HeapLess(a, b) ==
    \/ a[1] < b[1]
    \/ a[1] = b[1] /\ a[2][1] < b[2][1]
    \/ a[1] = b[1] /\ a[2][1] = b[2][1] /\ a[2][2] < b[2][2]

\* heapq.heappop: the least entry of the heap
HeapTop(h) == CHOOSE a \in h : \A b \in h \ {a} : HeapLess(a, b)

\* A pass of the neighbour loop that records the step whatever its cost.
RelaxAnyCost(st, g, blk, current, goal, i) ==
    LET d == neighbors[i]
        neighbor == << current[1] + d[1], current[2] + d[2] >>
        height_cost == abs(GroundGet(g, neighbor) - GroundGet(g, current))
                           * HeightFactor * StraightCost
        move_cost == IF d[1] # 0 /\ d[2] # 0 THEN DiagonalCost ELSE StraightCost
        tentative_g == st.g_score[current] + move_cost + height_cost
    IN  IF neighbor \in blk \/ neighbor \notin DOMAIN g THEN st
        ELSE [open_set |-> st.open_set \cup
                             {<< tentative_g + heuristic(neighbor, goal), neighbor >>},
              came_from |-> [n \in DOMAIN st.came_from \cup {neighbor} |->
                                IF n = neighbor THEN current ELSE st.came_from[n]],
              g_score |-> [n \in DOMAIN st.g_score \cup {neighbor} |->
                              IF n = neighbor THEN tentative_g ELSE st.g_score[n]]]

\* One pass of the neighbour loop: the search state after looking at
\* neighbors[i] of current.  st is [open_set, came_from, g_score].
Relax(st, g, blk, current, goal, i) ==
    LET d == neighbors[i]
        neighbor == << current[1] + d[1], current[2] + d[2] >>
        height_cost == abs(GroundGet(g, neighbor) - GroundGet(g, current))
                           * HeightFactor * StraightCost
        move_cost == IF d[1] # 0 /\ d[2] # 0 THEN DiagonalCost ELSE StraightCost
        tentative_g == st.g_score[current] + move_cost + height_cost
    IN  IF neighbor \in blk \/ neighbor \notin DOMAIN g THEN st
        ELSE IF neighbor \in DOMAIN st.g_score /\ ~(tentative_g < st.g_score[neighbor])
        THEN st
        ELSE [open_set |-> st.open_set \cup
                             {<< tentative_g + heuristic(neighbor, goal), neighbor >>},
              came_from |-> [n \in DOMAIN st.came_from \cup {neighbor} |->
                                IF n = neighbor THEN current ELSE st.came_from[n]],
              g_score |-> [n \in DOMAIN st.g_score \cup {neighbor} |->
                              IF n = neighbor THEN tentative_g ELSE st.g_score[n]]]

\* The neighbour loop from neighbors[i] on.  (The state after one pass is
\* bound as a value, nx, so that it is computed once.)
RECURSIVE RelaxFrom(_, _, _, _, _, _)
RelaxFrom(st, g, blk, current, goal, i) ==
    IF i > Len(neighbors) THEN st
    ELSE CHOOSE r \in {RelaxFrom(nx, g, blk, current, goal, i + 1) :
                          nx \in {Relax(st, g, blk, current, goal, i)}} : TRUE

\* The "while current in came_from" loop: the cells from current back to
\* the one the search started from, that one excluded.
RECURSIVE TraceBack(_, _, _)
TraceBack(cf, g, current) ==
    IF current \in DOMAIN cf
    THEN << << current[1], GroundGet(g, current), current[2] >> >>
             \o TraceBack(cf, g, cf[current])
    ELSE << >>

\* list.reverse()
RECURSIVE Reverse(_)
Reverse(s) == IF s = << >> THEN << >> ELSE Reverse(Tail(s)) \o << Head(s) >>

\* the route of the search, left in the order the back trace found it
RebuildPathNotReversed(cf, g, s, e) ==
    TraceBack(cf, g, e) \o << << s[1], GroundGet(g, s), s[2] >> >>

\* The else branch of the rebuild: trace back from the end, append the
\* start, reverse.
RebuildPath(cf, g, s, e) ==
    Reverse(TraceBack(cf, g, e) \o << << s[1], GroundGet(g, s), s[2] >> >>)

\* the fallback test without its "current != start_node"
SearchFailedNoLink(cf, s, e) == e \notin DOMAIN cf

\* Does the rebuild take the fallback branch?
SearchFailed(cf, s, e) == e \notin DOMAIN cf /\ e # s

\* dx, dz of the fallback walk
Sign(from, to) == IF to > from THEN 1 ELSE IF to < from THEN -1 ELSE 0

\* A pass of the fallback loop that moves along x only when the draw says so.
WalkNextOnDrawOnly(p, s, e, coin) ==
    IF p[1] # e[1] /\ coin
    THEN << p[1] + Sign(s[1], e[1]), p[2] >>
    ELSE IF p[2] # e[2] THEN << p[1], p[2] + Sign(s[2], e[2]) >>
    ELSE p

\* One pass of the fallback loop from column p; coin is random.random() < 0.5.
WalkNext(p, s, e, coin) ==
    IF p[1] # e[1] /\ (p[2] = e[2] \/ coin)
    THEN << p[1] + Sign(s[1], e[1]), p[2] >>
    ELSE IF p[2] # e[2] THEN << p[1], p[2] + Sign(s[2], e[2]) >>
    ELSE p

\* The "for dy in range(1, 4)" loop of the paving, from dy on.
RECURSIVE ClearAbove(_, _, _)
ClearAbove(w, c, dy) ==
    IF dy > 3 THEN w
    ELSE LET cell == << c[1], c[2] + dy, c[3] >>
         IN  ClearAbove(IF get_block(w, cell) \notin {"air", "water"}
                        THEN place_block(w, cell, "air", EmptyProps)
                        ELSE w,
                        c, dy + 1)

\* the body of the paving's offset loops on one cell
PaveCell(w, c, block) == place_block(ClearAbove(w, c, 1), c, block, EmptyProps)

\* the k-th (ox, oz) of the two offset loops, k from 0
PaveOffset(half_w, k) ==
    << (k \div (2 * half_w + 1)) - half_w, (k % (2 * half_w + 1)) - half_w >>

\* How many cells the paving visits around one route element.
PaveCount(width) == (2 * (width \div 2) + 1) * (2 * (width \div 2) + 1)

\* The n-th cell the paving loops visit on route p, n from 0.
PaveTarget(p, width, n) ==
    LET e == p[(n \div PaveCount(width)) + 1]
        o == PaveOffset(width \div 2, n % PaveCount(width))
    IN  << e[1] + o[1], e[2], e[3] + o[2] >>

(***************************************************************************)
(* The worlds the planner is run on: bare terrain plus hills (one more     *)
(* block of dirt), houses (a block of planks on the surface) and flowers.  *)
(***************************************************************************)
Start == << 0, 0 >>

Goals == (-MaxSpan .. MaxSpan) \X (-MaxSpan .. MaxSpan)

Widths == {1, 2}

Ring(c) == {<< c[1] + neighbors[i][1], c[2] + neighbors[i][2] >> : i \in DOMAIN neighbors}

HouseSets ==
    {{}, {Start}, Ring(Start), {<< 1, 0 >>}, {<< 1, -1 >>, << 1, 0 >>, << 1, 1 >>}}

HillSets == {{}, {<< 0, 1 >>, << 2, 0 >>}, {<< -1, 0 >>, << -1, -1 >>, << 1, 1 >>}}

FlowerSets == {{}, {<< 0, -1 >>}}

PoolSets == {{}, {<< -1, 1 >>}}

\* a row of houses longer than the box around the start and the goals next
\* to it is wide
LongWall == {<< 1, z >> : z \in -(ScanMargin + 1) .. (ScanMargin + 1)}

\* A layout names the columns that carry a house, a hill, a flower, and the
\* pools: columns of water from the surface down through the scanned band.
Layouts ==
    {[houses |-> h, hills |-> m, flowers |-> {}, pools |-> {}] :
        << h, m >> \in HouseSets \X HillSets}
    \cup {[houses |-> {}, hills |-> m, flowers |-> f, pools |-> q] :
             << m, f, q >> \in {{}, {<< 1, 0 >>}} \X FlowerSets \X PoolSets}
    \cup {[houses |-> LongWall, hills |-> {}, flowers |-> {}, pools |-> {}]}

LayoutWorld(l) ==
    [c \in {<< k[1], 65, k[2] >> : k \in l.houses \cup l.hills \cup l.flowers}
            \cup {<< k[1], y, k[2] >> : k \in l.pools, y \in ScanBottom .. 64} |->
        IF << c[1], c[3] >> \in l.pools THEN Block("minecraft", "water", EmptyProps)
        ELSE IF << c[1], c[3] >> \in l.houses
        THEN Block("minecraft", "oak_planks", EmptyProps)
        ELSE IF << c[1], c[3] >> \in l.hills THEN Block("minecraft", "dirt", EmptyProps)
        ELSE Block("minecraft", "poppy", EmptyProps)]

PathWorlds == {LayoutWorld(l) : l \in Layouts}

InitPath ==
    /\ world \in PathWorlds
    /\ template = NoTemplate
    /\ orig = NoTemplate
    /\ chain = << >>
    /\ call = [op |-> "none"]
    /\ fs = NoFiles
    /\ pc = "idle"
    /\ NoPlan

\* build_smart_path up to the search loop, on level w
Begin(w, s, e, width, block) ==
    /\ args' = [start |-> s, end |-> e, width |-> width, block |-> block]
    /\ start_node' = s
    /\ end_node' = e
    /\ ground' = PathGround(w, s, e)
    /\ blocked' = BlockedColumns(w, ground', s, e)
    /\ open_set' = {<< 0, s >>}
    /\ came_from' = NoMap
    /\ g_score' = [n \in {s} |-> 0]
    /\ path' = << >>
    /\ walk' = s
    /\ paved' = 0
    /\ out' = [log |-> << >>]
    /\ pc' = "search"

\* build_smart_path(level, start, end, dim, ver, width, block) is called
Plan(s, e, width, block) ==
    /\ pc = "idle"
    /\ Begin(world, s, e, width, block)
    /\ run' = 1
    /\ prev' = [NoRun EXCEPT !.level = world]
    /\ UNCHANGED <<world, evars, svars>>

\* One pass of "while open_set": pop, stop at the end node, else look at
\* the eight neighbours.
Pop ==
    /\ pc = "search"
    /\ open_set # {}
    /\ LET top == HeapTop(open_set)
           current == top[2]
           rest == [open_set |-> open_set \ {top}, came_from |-> came_from,
                    g_score |-> g_score]
           st == IF current = end_node THEN rest
                 ELSE RelaxFrom(rest, ground, blocked, current, end_node, 1)
       IN  /\ open_set' = st.open_set
           /\ came_from' = st.came_from
           /\ g_score' = st.g_score
           /\ pc' = IF current = end_node THEN "rebuild" ELSE "search"
    /\ UNCHANGED <<world, evars, svars, args, start_node, end_node, ground,
                   blocked, path, walk, paved, out, run, prev>>

\* "while open_set" ends with the heap empty
Exhausted ==
    /\ pc = "search"
    /\ open_set = {}
    /\ pc' = "rebuild"
    /\ UNCHANGED <<world, evars, svars, args, start_node, end_node, ground,
                   blocked, open_set, came_from, g_score, path, walk, paved, out,
                   run, prev>>

\* The rebuild: the warning and the start of the fallback walk, or the
\* route of the search.
Rebuild ==
    /\ pc = "rebuild"
    /\ IF SearchFailed(came_from, start_node, end_node)
       THEN /\ out' = [out EXCEPT !.log = Append(@, "warning: search failed, straight path")]
            /\ walk' = start_node
            /\ path' = << >>
            /\ pc' = "walk"
       ELSE /\ path' = RebuildPath(came_from, ground, start_node, end_node)
            /\ pc' = "pave"
            /\ UNCHANGED <<out, walk>>
    /\ UNCHANGED <<world, evars, svars, args, start_node, end_node, ground,
                   blocked, open_set, came_from, g_score, paved, run, prev>>

\* One pass of the fallback loop; random.random() is drawn only when both
\* coordinates still differ.
WalkStep(coin) ==
    /\ pc = "walk"
    /\ walk # end_node
    /\ path' = Append(path, << walk[1], GroundGet(ground, walk), walk[2] >>)
    /\ walk' = WalkNext(walk, start_node, end_node, coin)
    /\ UNCHANGED <<world, evars, svars, pc, args, start_node, end_node, ground,
                   blocked, open_set, came_from, g_score, paved, out, run, prev>>

\* The fallback loop ends; the end node is appended.
WalkEnd ==
    /\ pc = "walk"
    /\ walk = end_node
    /\ path' = Append(path, << end_node[1], GroundGet(ground, end_node), end_node[2] >>)
    /\ pc' = "pave"
    /\ UNCHANGED <<world, evars, svars, args, start_node, end_node, ground,
                   blocked, open_set, came_from, g_score, walk, paved, out, run,
                   prev>>

\* One pass of the innermost offset loop of the paving: the next cell is
\* cleared above and paved.
PaveStep ==
    /\ pc = "pave"
    /\ paved < Len(path) * PaveCount(args.width)
    /\ world' = PaveCell(world, PaveTarget(path, args.width, paved), args.block)
    /\ paved' = paved + 1
    /\ UNCHANGED <<evars, svars, pc, args, start_node, end_node, ground, blocked,
                   open_set, came_from, g_score, path, walk, out, run, prev>>

\* The paving loop ends: the closing message and "return path".
Return ==
    /\ pc = "pave"
    /\ paved = Len(path) * PaveCount(args.width)
    /\ out' = [log |-> Append(out.log, "done"), ret |-> [path |-> path]]
    /\ pc' = "done"
    /\ UNCHANGED <<world, evars, svars, args, start_node, end_node, ground,
                   blocked, open_set, came_from, g_score, path, walk, paved, run,
                   prev>>

\* The same call again on the level as it was before the first one.
Replan ==
    /\ pc = "done"
    /\ run = 1
    /\ world' = prev.level
    /\ Begin(prev.level, args.start, args.end, args.width, args.block)
    /\ run' = 2
    /\ prev' = [level |-> prev.level, ground |-> ground, blocked |-> blocked,
                path |-> out.ret.path]
    /\ UNCHANGED <<evars, svars>>

NextPath ==
    \/ \E e \in Goals, width \in Widths : Plan(Start, e, width, "stone_bricks")
    \/ Pop
    \/ Exhausted
    \/ Rebuild
    \/ \E coin \in BOOLEAN : WalkStep(coin)
    \/ WalkEnd
    \/ PaveStep
    \/ Return
    \/ Replan

SpecPath == InitPath /\ [][NextPath]_vars

(***************************************************************************)
(* Claims about the path planner                                           *)
(***************************************************************************)
\* the column of a route element (x, y, z)
Col(e) == << e[1], e[3] >>

\* the grid scan_ground covered for this call
ScannedGrid ==
    ScanSquare((start_node[1] + end_node[1]) \div 2, (start_node[2] + end_node[2]) \div 2,
               PathRadius(start_node, end_node))

\* the columns that steps between adjacent open columns lead to from the frontier
RECURSIVE Spread(_, _, _)
Spread(open, seen, frontier) ==
    LET next == {n \in open \ seen :
                    \E i \in DOMAIN neighbors :
                        << n[1] - neighbors[i][1], n[2] - neighbors[i][2] >> \in frontier}
    IN  IF next = {} THEN seen ELSE Spread(open, seen \cup next, next)

\* the columns that can be reached from the start over ground that is not blocked
Reachable == Spread((DOMAIN ground) \ blocked, {start_node}, {start_node})

\* The call has returned; out.ret.path is the route it returned.
Returned == pc = "done"

\* The route came from the fallback walk (the warning was printed).
FellBack ==
    \E i \in DOMAIN out.log : out.log[i] = "warning: search failed, straight path"

\* C5: on a grid where every column has ground and none is blocked, with the
\* goal reachable, the returned route starts at the start column, ends at
\* the goal column and stays inside the scanned grid.
C5_PathEndpoints ==
    (/\ Returned
     /\ DOMAIN ground = ScannedGrid
     /\ blocked = {}
     /\ end_node \in Reachable)
    => LET r == out.ret.path
       IN  /\ Len(r) >= 1
           /\ Col(r[1]) = start_node
           /\ Col(r[Len(r)]) = end_node
           /\ \A i \in DOMAIN r : Col(r[i]) \in ScannedGrid

\* A search route of three or more cells over open ground that changes height.
C5_Witness ==
    /\ Returned
    /\ DOMAIN ground = ScannedGrid
    /\ blocked = {}
    /\ ~FellBack
    /\ Len(out.ret.path) >= 3
    /\ \E i \in DOMAIN out.ret.path : out.ret.path[i][2] # out.ret.path[1][2]

\* C6: a route produced by the search holds no blocked column, the start
\* and the goal included.
C6_BlockedAvoidance ==
    (Returned /\ ~FellBack)
    => \A i \in DOMAIN out.ret.path : Col(out.ret.path[i]) \notin blocked

\* Start and goal are open ground, and blocked columns cut the goal off.
WalledOff ==
    /\ start_node \in (DOMAIN ground) \ blocked
    /\ end_node \in (DOMAIN ground) \ blocked
    /\ end_node \notin Reachable

\* C7: when a wall of blocked columns separates start and goal, the call
\* returns a degraded-route flag together with a non-empty route that ends
\* at the goal column.
C7_FallbackFlag ==
    (Returned /\ WalledOff)
    => /\ "degraded" \in DOMAIN out.ret
       /\ Len(out.ret.path) >= 1
       /\ Col(out.ret.path[Len(out.ret.path)]) = end_node

\* C10: a second run on the same height map, blocked set, start and goal
\* returns the route the first run returned.
C10_Determinism ==
    (/\ Returned
     /\ run = 2
     /\ ground = prev.ground
     /\ blocked = prev.blocked)
    => out.ret.path = prev.path

(***************************************************************************)
(* Further claims about the template engine                                *)
(***************************************************************************)
\* The cells a paste of the template in hand may fill: the template's box,
\* turned as the rotation turns it, at the origin of the paste.
PasteBox ==
    LET size == IF call.rotate \in {90, 270}
                THEN << template.size[3], template.size[2], template.size[1] >>
                ELSE template.size
    IN  {Plus(call.origin, r) : r \in BoxCells(size)}

\* The cells the paste wrote: origin + transformed relative coordinate of
\* some entry of the template.
PasteTargets ==
    {Plus(call.origin,
          TransformEntry(template.blocks[i], template.size, call.rotate, call.mirror).pos) :
        i \in 1..Len(template.blocks)}

\* C11: paste_structure changes only the cells at origin + transformed
\* relative coordinate of some entry; every other cell, the other cells of
\* the template's bounding box included, keeps its content, and the count
\* returned is the number of entries, under every rotation and mirroring.
C11_PasteAdditive ==
    call.op = "paste" =>
        /\ \A c \in (DOMAIN world \cup DOMAIN call.before \cup PasteBox) \ PasteTargets :
               get_version_block(world, c) = get_version_block(call.before, c)
        /\ call.count = Len(template.blocks)

\* C11: a turned paste that wrote an entry and left a block standing in a
\* cell of its bounding box that no entry covers.
C11_Witness ==
    /\ call.op = "paste"
    /\ call.rotate # 0
    /\ call.count >= 1
    /\ \E c \in PasteBox \ PasteTargets :
          /\ get_version_block(call.before, c).name # "air"
          /\ get_version_block(world, c) = get_version_block(call.before, c)

(***************************************************************************)
(* Replaying stored documents: load_template, then paste_structure, on     *)
(* files that a save wrote and on files that were damaged or edited since. *)
(***************************************************************************)
\* a dict without one of its keys
Without(d, key) == [k \in DOMAIN d \ {key} |-> d[k]]

\* The templates whose documents lie in the template directory.
ReplayBases ==
    {scan_structure([c \in {<< 0, 65, 0 >>, << 1, 65, 0 >>} |->
                         IF c[1] = 0 THEN Block("minecraft", "stone", EmptyProps)
                         ELSE Block("minecraft", "oak_stairs", [facing |-> "east"])],
                    << 0, 65, 0 >>, << 1, 65, 0 >>),
     scan_structure(NoEdits, << 0, 64, 0 >>, << 0, 65, 1 >>)}

\* What damage makes of a template: a key of the document or of an entry
\* lost, or a coordinate of an entry moved out of the box.
Damaged(t) ==
    {Without(t, "size"), Without(t, "blocks")}
    \cup {[t EXCEPT !.blocks[i] = Without(@, key)] :
             i \in 1..Len(t.blocks), key \in {"pos", "name"}}
    \cup {[t EXCEPT !.blocks[i].pos = pos] :
             i \in 1..Len(t.blocks), pos \in {<< t.size[1], 0, 0 >>, << 0, -1, 0 >>}}

ReplayTemplates == ReplayBases \cup UNION {Damaged(t) : t \in ReplayBases}

ReplayOrigins == {<< 0, 65, 0 >>, << 2, 66, 1 >>}

InitReplay ==
    /\ world = NoEdits
    /\ template = NoTemplate
    /\ orig = NoTemplate
    /\ chain = << >>
    /\ call = [op |-> "none"]
    /\ fs \in {[p \in {[root |-> TEMPLATES_DIR, name |-> << "k", "json" >>]} |->
                   File(json_dump(t))] : t \in ReplayTemplates}
    /\ PathOff

NextReplay ==
    \/ \E filepath \in {Rel(<< "k" >>), Rel(<< "k", "json" >>)} : Load(filepath)
    \/ /\ call.op = "load"
       /\ call.err = "none"
       /\ \E origin \in ReplayOrigins, rotate \in Angles, mirror \in BOOLEAN :
             Paste(origin, rotate, mirror)

SpecReplay == InitReplay /\ [][NextReplay]_vars

\* The template is malformed: size or blocks missing, an entry without pos
\* or name, or a coordinate outside [0, size).
Malformed(t) ==
    \/ "size" \notin DOMAIN t
    \/ "blocks" \notin DOMAIN t
    \/ \E i \in 1..Len(t.blocks) :
          \/ "pos" \notin DOMAIN t.blocks[i]
          \/ "name" \notin DOMAIN t.blocks[i]
          \/ \E a \in 1..3 : t.blocks[i].pos[a] < 0 \/ t.blocks[i].pos[a] >= t.size[a]

\* C12: a malformed template that got through load_template makes
\* paste_structure report an error and leave the world with none of the
\* entries written; a paste that does stop part-way reports the count of
\* cells it wrote to its caller.
C12_MalformedFailFast ==
    (call.op = "paste" /\ Malformed(template))
    => /\ call.err # "none"
       /\ \A c \in DOMAIN world \cup DOMAIN call.before :
              get_version_block(world, c) = get_version_block(call.before, c)
       /\ call.written > 0 => "count" \in DOMAIN call

\* The entries of the template in hand that sit at relative coordinate r.
EntriesAt(r) == {i \in 1..Len(template.blocks) : template.blocks[i].pos = r}

TransformPos(p, size, rotate, mirror) ==
    TransformEntry([pos |-> p, name |-> "stone"], size, rotate, mirror).pos

\* the size of the box after the rotation
TurnedSize(size, rotate) ==
    IF rotate \in {90, 270} THEN << size[3], size[2], size[1] >> ELSE size

\* C14: under each rotation in {0, 90, 180, 270}, with mirror on or off, the
\* position transform maps the template's box one-to-one onto the turned box
\* (footprint sz x sx for 90 and 270, sx x sz otherwise) and keeps y, so
\* every transformed coordinate lies within the turned size, distinct
\* entries land on distinct cells and the entry count is kept.
C14_TransformBijection ==
    call.op = "paste" =>
        LET size == template.size
            T(p) == TransformPos(p, size, call.rotate, call.mirror)
        IN  /\ \A p \in BoxCells(size) :
                  T(p) \in BoxCells(TurnedSize(size, call.rotate)) /\ T(p)[2] = p[2]
            /\ \A p, q \in BoxCells(size) : T(p) = T(q) => p = q
            /\ {T(p) : p \in BoxCells(size)} = BoxCells(TurnedSize(size, call.rotate))
            /\ Len(call.writes) = Len(template.blocks)
            /\ \A i, j \in 1..Len(call.writes) :
                  call.writes[i].at = call.writes[j].at => i = j
            /\ \A i \in 1..Len(call.writes) : call.writes[i].at \in PasteBox

\* C14: a mirrored quarter turn of a two-entry template whose footprint is
\* not square.
C14_Witness ==
    /\ call.op = "paste"
    /\ call.rotate = 90
    /\ call.mirror
    /\ template.size[1] # template.size[3]
    /\ Len(template.blocks) = 2
    /\ call.writes[1].at # call.writes[2].at
    /\ \A i \in 1..2 : call.writes[i].at \in PasteBox

\* x and z exchanged, y kept
XZSwapped(a) == CASE a = "x" -> "z" [] a = "z" -> "x" [] a = "y" -> "y"

\* The axis of the cell written for entry i of the pasted template.
PastedAxis(i) == get_version_block(world, call.writes[i].at).props["axis"]

\* C15: an entry with an axis attribute is pasted with x and z exchanged
\* and y kept under a rotation by 90 or 270, and with its axis value as it
\* is under a rotation by 0 or 180; mirroring makes no difference.
C15_AxisCorrect ==
    call.op = "paste" =>
        \A i \in 1..Len(template.blocks) :
            (/\ "axis" \in DOMAIN EntryProps(template.blocks[i])
             /\ \A j \in (i + 1)..Len(template.blocks) :
                   call.writes[j].at # call.writes[i].at)
            => LET a == EntryProps(template.blocks[i])["axis"]
               IN  PastedAxis(i) = IF call.rotate \in {90, 270} THEN XZSwapped(a) ELSE a

\* C15: an entry lying along x pasted under a mirrored three-quarter turn
\* lies along z.
C15_Witness ==
    /\ call.op = "paste"
    /\ call.rotate = 270
    /\ call.mirror
    /\ \E i \in 1..Len(template.blocks) :
          /\ "axis" \in DOMAIN EntryProps(template.blocks[i])
          /\ EntryProps(template.blocks[i])["axis"] = "x"
          /\ PastedAxis(i) = "z"

\* An entry mirrored alone, then rotated alone.
MirroredThenRotated(entry, size, rotate) ==
    TransformEntry(TransformEntry(entry, size, 0, TRUE), size, rotate, FALSE)

\* The paste in hand was called with mirror and a rotation other than 0.
MirroredAndTurned == call.op = "paste" /\ call.mirror /\ call.rotate # 0

\* C16: a paste with both mirror and a non-zero rotation writes every entry
\* where, and facing as, mirroring it first and rotating it second puts it.
\* (That the other order gives a different result for some template is
\* C16_Witness.)
C16_MirrorBeforeRotation ==
    MirroredAndTurned =>
        \A i \in 1..Len(template.blocks) :
            LET e == MirroredThenRotated(template.blocks[i], template.size, call.rotate)
            IN  /\ call.writes[i].at = Plus(call.origin, e.pos)
                /\ call.writes[i].props = e.props

\* C16: a paste with mirror and rotation of an entry with a horizontal
\* facing that rotating first and mirroring second would have put in
\* another place and turned to another facing.
C16_Witness ==
    /\ MirroredAndTurned
    /\ \E i \in 1..Len(template.blocks) :
          LET e == MirroredThenRotated(template.blocks[i], template.size, call.rotate)
              o == RotateThenMirror(template.blocks[i], template.size, call.rotate, TRUE)
          IN  /\ HasHorizontalFacing(template.blocks[i])
              /\ call.writes[i].at = Plus(call.origin, e.pos)
              /\ call.writes[i].props = e.props
              /\ o.pos # e.pos
              /\ o.props["facing"] # e.props["facing"]

(***************************************************************************)
(* The terrain samplers: scan_terrain (generic surface) and scan_ground    *)
(* (ground only), called on their own.                                     *)
(***************************************************************************)
TerrainBand == 40   \* range(base_y + 40, base_y - 40, -1)

\* The inner loop of scan_terrain on one column, from y down to above
\* bottom: {} when nothing is recorded, else {the y recorded}.
RECURSIVE TerrainColumn(_, _, _, _, _)
TerrainColumn(w, x, z, y, bottom) ==
    IF y <= bottom THEN {}
    ELSE LET bid == get_block(w, << x, y, z >>)
         IN  IF bid # "air"
             THEN (IF bid # "water" THEN {y} ELSE {})
             ELSE TerrainColumn(w, x, z, y - 1, bottom)

\* scan_terrain(level, cx, cz, dim, ver, radius, base_y): the height map
scan_terrain(w, cx, cz, radius, base_y) ==
    LET found == {<< c, TerrainColumn(w, c[1], c[2], base_y + TerrainBand,
                                      base_y - TerrainBand) >> :
                     c \in ScanSquare(cx, cz, radius)}
        hit == {p \in found : p[2] # {}}
    IN  [c \in {p[1] : p \in hit} |->
            CHOOSE y \in (base_y - TerrainBand + 1) .. (base_y + TerrainBand) :
                << c, {y} >> \in hit]

MaxRadius == 2      \* the samplers are called with radius 1..MaxRadius

\* What stands in a sampled column from y = 63 up, where it differs from the
\* terrain: a pond, a deep pond, a house, a floor laid into the ground, a
\* flower, a hill, a pier over water.
SampleStacks ==
    LET B(name) == Block("minecraft", name, EmptyProps)
    IN  {[y \in {64} |-> B("water")],
         [y \in {63, 64} |-> B("water")],
         [y \in {65} |-> B("oak_planks")],
         [y \in {64} |-> B("oak_planks")],
         [y \in {65} |-> B("poppy")],
         [y \in {65} |-> B("dirt")],
         [y \in {64, 65} |-> IF y = 64 THEN B("water") ELSE B("oak_planks")]}

SampleColumns == {<< 0, 0 >>, << 1, 0 >>, << 1, 1 >>}

SampleCenters == {<< 0, 0 >>, << 1, 1 >>}

\* The levels sampled: the terrain, bare or with one column built up.
SampleWorlds ==
    {NoEdits} \cup
    {[c \in {<< k[1], y, k[2] >> : y \in DOMAIN st} |-> st[c[2]]] :
        k \in SampleColumns, st \in SampleStacks}

InitSample ==
    /\ world \in SampleWorlds
    /\ template = NoTemplate
    /\ orig = NoTemplate
    /\ chain = << >>
    /\ call = [op |-> "none"]
    /\ fs = NoFiles
    /\ PathOff

\* scan_terrain(level, cx, cz, dim, ver, radius, base_y)
ScanTerrain(cx, cz, radius, base_y) ==
    /\ call' = [op |-> "scan_terrain", cx |-> cx, cz |-> cz, radius |-> radius,
                top |-> base_y + TerrainBand, bottom |-> base_y - TerrainBand,
                height_map |-> scan_terrain(world, cx, cz, radius, base_y)]
    /\ UNCHANGED <<world, template, orig, chain, svars, pvars>>

\* scan_ground(level, cx, cz, dim, ver, radius)
ScanGround(cx, cz, radius) ==
    /\ call' = [op |-> "scan_ground", cx |-> cx, cz |-> cz, radius |-> radius,
                top |-> ScanTop, bottom |-> ScanBottom,
                height_map |-> scan_ground(world, cx, cz, radius)]
    /\ UNCHANGED <<world, template, orig, chain, svars, pvars>>

NextSample ==
    \/ \E c \in SampleCenters, radius \in 1..MaxRadius, base_y \in {64, 70} :
          ScanTerrain(c[1], c[2], radius, base_y)
    \/ \E c \in SampleCenters, radius \in 1..MaxRadius : ScanGround(c[1], c[2], radius)

SpecSample == InitSample /\ [][NextSample]_vars

\* A sampler has returned; call.height_map is its height map.
Sampled == call.op \in {"scan_terrain", "scan_ground"}

\* the columns the loops of the sampler visited
SampledColumns == ScanSquare(call.cx, call.cz, call.radius)

\* the cells of column c inside the vertical band, that are not air
BandCells(c) ==
    {y \in (call.bottom + 1) .. call.top : get_block(world, << c[1], y, c[2] >>) # "air"}

\* the greatest member of a non-empty set of integers
Highest(S) == CHOOSE y \in S : \A v \in S : v <= y

\* the cells of column c inside the band that are neither air nor water
SolidCells(c) == {y \in BandCells(c) : get_block(world, << c[1], y, c[2] >>) # "water"}

\* The top-down scan of column c meets water first, and the first cell
\* beneath the water that is neither air nor water is natural ground.
WaterOverGround(c) ==
    /\ BandCells(c) # {}
    /\ get_block(world, << c[1], Highest(BandCells(c)), c[2] >>) = "water"
    /\ SolidCells(c) # {}
    /\ get_block(world, << c[1], Highest(SolidCells(c)), c[2] >>) \in NATURAL_GROUND

\* C17: in scan_terrain and in scan_ground alike, water met in the top-down
\* scan of a column does not end the scan: the column is recorded with the
\* elevation of the first solid cell beneath the water.
C17_LiquidSkipped ==
    Sampled =>
        \A c \in SampledColumns :
            WaterOverGround(c) =>
                /\ c \in DOMAIN call.height_map
                /\ call.height_map[c] = Highest(SolidCells(c))

\* the cells of column c inside the band that are neither air, liquid nor
\* low vegetation
StandingCells(c) ==
    {y \in SolidCells(c) :
        get_block(world, << c[1], y, c[2] >>) \notin Vegetation \cup FLOWERS}

\* The first cell of column c that is neither air, liquid nor vegetation is
\* built material.
BuiltFirst(c) ==
    /\ StandingCells(c) # {}
    /\ get_block(world, << c[1], Highest(StandingCells(c)), c[2] >>) \in BUILDING_BLOCKS

\* the cells of column c inside the band that are not built material either
GroundCells(c) ==
    {y \in StandingCells(c) :
        get_block(world, << c[1], y, c[2] >>) \notin BUILDING_BLOCKS}

\* C18 as stated: in scan_ground, a column whose first non-empty,
\* non-liquid, non-vegetation cell is built material is absent from the
\* height map.
C18_StopsAtBuilt ==
    call.op = "scan_ground" =>
        \A c \in SampledColumns : BuiltFirst(c) => c \notin DOMAIN call.height_map

\* C18: in scan_ground, built material met in the top-down scan of a column
\* is passed over like air, liquid and vegetation: the column is recorded
\* with the elevation of the first cell beneath that is none of these, and
\* is absent only when the band holds no such cell.
C18_SeesThroughBuilt ==
    call.op = "scan_ground" =>
        \A c \in SampledColumns :
            BuiltFirst(c) =>
                IF GroundCells(c) = {} THEN c \notin DOMAIN call.height_map
                ELSE /\ c \in DOMAIN call.height_map
                     /\ call.height_map[c] = Highest(GroundCells(c))

\* C18: a scanned column with planks on top, recorded at the elevation of
\* the dirt beneath them.
C18_Witness ==
    /\ call.op = "scan_ground"
    /\ \E c \in SampledColumns :
          /\ BuiltFirst(c)
          /\ c \in DOMAIN call.height_map
          /\ call.height_map[c] < Highest(StandingCells(c))
          /\ get_block(world, << c[1], call.height_map[c], c[2] >>) = "dirt"

\* the columns whose Chebyshev distance from the center of the sampled
\* square is at most radius
ChebyshevSquare ==
    {c \in (call.cx - call.radius .. call.cx + call.radius)
             \X (call.cz - call.radius .. call.cz + call.radius) :
        Max(abs(c[1] - call.cx), abs(c[2] - call.cz)) <= call.radius}

\* The first cell the top-down scan of column c meets that is not air is
\* natural ground: either sampler records such a column when it examines it.
OpenGround(c) ==
    /\ BandCells(c) # {}
    /\ get_block(world, << c[1], Highest(BandCells(c)), c[2] >>) \in NATURAL_GROUND

\* C19: scan_terrain and scan_ground examine every column whose Chebyshev
\* distance from the center is at most radius, the columns at x = cx + radius
\* and z = cz + radius included: each such column of open natural ground has
\* its elevation in the height map.
C19_WholeSquare ==
    Sampled =>
        \A c \in ChebyshevSquare :
            OpenGround(c) =>
                /\ c \in DOMAIN call.height_map
                /\ call.height_map[c] = Highest(BandCells(c))

\* the cells of the half-width square around route element e, at its
\* elevation
PavedSquare(e, width) ==
    {<< e[1] + ox, e[2], e[3] + oz >> :
        ox \in -(width \div 2) .. (width \div 2), oz \in -(width \div 2) .. (width \div 2)}

\* Cell c holds the surface block and the three cells above it hold only
\* air or water.
PavedAndClear(c, block) ==
    /\ get_block(world, c) = _fix_block_name(block)
    /\ \A dy \in 1 .. 3 : get_block(world, << c[1], c[2] + dy, c[3] >>) \in {"air", "water"}

\* Two neighbouring elements of the returned route differ in elevation.
RouteClimbs ==
    \E i \in 1 .. Len(out.ret.path) - 1 : out.ret.path[i][2] # out.ret.path[i + 1][2]

\* C20: after build_smart_path has paved a route, for every route step and
\* every offset within the half-width square around it, the cell at the
\* step's elevation holds the surface block and the three cells above it
\* hold only air or water, whatever the width and the elevation differences
\* between neighbouring steps.
C20_PavingPostcondition ==
    Returned =>
        \A i \in DOMAIN out.ret.path :
            \A c \in PavedSquare(out.ret.path[i], args.width) :
                PavedAndClear(c, args.block)

(***************************************************************************)
(* Further claims about the path planner                                   *)
(***************************************************************************)
\* How many steps the routes compared with the heuristic may have.
MaxRoute == 2

\* the column one step from c along neighbors[i]
StepTo(c, i) == << c[1] + neighbors[i][1], c[2] + neighbors[i][2] >>

\* move_cost + height_cost of the step from c along neighbors[i], in
\* thousandths
EdgeCost(g, c, i) ==
    (IF neighbors[i][1] # 0 /\ neighbors[i][2] # 0 THEN DiagonalCost ELSE StraightCost)
    + abs(GroundGet(g, StepTo(c, i)) - GroundGet(g, c)) * HeightFactor * StraightCost

\* the routes from one column: the directions of their steps
StepLists == UNION {[1 .. k -> DOMAIN neighbors] : k \in 1 .. MaxRoute}

\* where the route that leaves c along the directions d arrives, from step k on
RECURSIVE RouteEnd(_, _, _)
RouteEnd(c, d, k) == IF k > Len(d) THEN c ELSE RouteEnd(StepTo(c, d[k]), d, k + 1)

\* what that route costs under the planner's edge costs
RECURSIVE RouteCost(_, _, _, _)
RouteCost(g, c, d, k) ==
    IF k > Len(d) THEN 0
    ELSE EdgeCost(g, c, d[k]) + RouteCost(g, StepTo(c, d[k]), d, k + 1)

\* Every column the route enters has ground and is not blocked, so the
\* search may take each of its steps.
RECURSIVE RouteOpen(_, _, _, _, _)
RouteOpen(g, blk, c, d, k) ==
    \/ k > Len(d)
    \/ /\ StepTo(c, d[k]) \in (DOMAIN g) \ blk
       /\ RouteOpen(g, blk, StepTo(c, d[k]), d, k + 1)

\* the columns from which a route of at most MaxRoute steps may reach the goal
NearGoal ==
    (end_node[1] - MaxRoute .. end_node[1] + MaxRoute)
        \X (end_node[2] - MaxRoute .. end_node[2] + MaxRoute)

\* The planner has its height map and its blocked set.
Planned == pc # "idle"

\* C21: for every column n and the goal g, the Manhattan distance the search
\* uses as its heuristic never exceeds the cost of a route from n to g under
\* the planner's edge costs, hence never the minimum of these costs.
C21_HeuristicAdmissible ==
    Planned =>
        \A n \in NearGoal : \A d \in StepLists :
            (RouteOpen(ground, blocked, n, d, 1) /\ RouteEnd(n, d, 1) = end_node)
                => heuristic(n, end_node) <= RouteCost(ground, n, d, 1)

\* The levels the termination of the planner is checked on: bare or hilly
\* terrain, with no house, with houses all around the start, or with a row of
\* houses that holds three of the goals.
LiveLayouts ==
    {l \in Layouts :
        /\ l.flowers = {} /\ l.pools = {}
        /\ l.houses \in {{}, Ring(Start), {<< 1, -1 >>, << 1, 0 >>, << 1, 1 >>}}
        /\ l.hills \in {{}, {<< 0, 1 >>, << 2, 0 >>}}}

InitPathLive ==
    /\ InitPath
    /\ world \in {LayoutWorld(l) : l \in LiveLayouts}

\* One call of build_smart_path, from the call to its return.
NextPathLive ==
    \/ \E e \in Goals, width \in Widths : Plan(Start, e, width, "stone_bricks")
    \/ Pop
    \/ Exhausted
    \/ Rebuild
    \/ \E coin \in BOOLEAN : WalkStep(coin)
    \/ WalkEnd
    \/ PaveStep
    \/ Return

\* build_smart_path runs on once called: python executes the next pass of
\* the loop the call is in, or the statement after it, whenever there is one.
SpecPathLive ==
    /\ InitPathLive
    /\ [][NextPathLive]_vars
    /\ WF_vars(Pop)
    /\ WF_vars(Exhausted)
    /\ WF_vars(Rebuild)
    /\ WF_vars(\E coin \in BOOLEAN : WalkStep(coin))
    /\ WF_vars(WalkEnd)

\* |goal.x - start.x| + |goal.z - start.z|
WalkLength == abs(end_node[1] - start_node[1]) + abs(end_node[2] - start_node[2])

\* The predecessor links lead to strictly smaller costs and the start has
\* none: following them from any column ends, at the start.
LinksDescend ==
    /\ start_node \notin DOMAIN came_from
    /\ \A n \in DOMAIN came_from :
          /\ came_from[n] \in DOMAIN g_score
          /\ g_score[came_from[n]] < g_score[n]

\* The fallback walk has ended: its route is about to be paved.
WalkOver == pc = "pave" /\ FellBack

\* C22: planning terminates.  The search loop ends, by popping the goal or
\* by emptying the open set; the route reconstruction ends, its links
\* leading to the start without a cycle; and the fallback walk ends after
\* exactly |goal.x - start.x| + |goal.z - start.z| steps, whatever the
\* random draws.
C22_PlanningTerminates ==
    /\ [](Planned => LinksDescend)
    /\ [](pc = "walk" => Len(path) <= WalkLength)
    /\ [](WalkOver => Len(path) = WalkLength + 1)
    /\ (pc = "search" ~> pc = "rebuild")
    /\ (pc = "rebuild" ~> pc \in {"walk", "pave"})
    /\ (pc = "walk" ~> pc = "pave")

\* C22: a fallback walk that had both coordinates to change, so that it drew
\* random numbers, has ended.
C22_Witness ==
    /\ WalkOver
    /\ start_node[1] # end_node[1]
    /\ start_node[2] # end_node[2]
    /\ Len(path) = WalkLength + 1
    /\ Len(path) >= 4

\* No chain of 8-adjacent steps leads from the start to the goal through
\* columns that, the start aside, are in the height map and not blocked.
Unreachable == start_node # end_node /\ end_node \notin Reachable

\* C23: build_smart_path takes the fallback walk if and only if the start
\* differs from the goal and no chain of 8-adjacent steps leads from the
\* start to the goal through columns that are in the height map and not
\* blocked (the start aside); in every other case it returns the route of
\* the search, from the start column to the goal column.
C23_FallbackIffUnreachable ==
    Returned =>
        /\ FellBack <=> Unreachable
        /\ ~FellBack =>
              /\ out.ret.path = RebuildPath(came_from, ground, start_node, end_node)
              /\ Col(out.ret.path[1]) = start_node
              /\ Col(out.ret.path[Len(out.ret.path)]) = end_node

\* C23: a call that fell back, from a start on open ground to a goal that no
\* chain of open columns reaches.
C23_Witness ==
    /\ Returned
    /\ FellBack
    /\ Unreachable
    /\ start_node \in (DOMAIN ground) \ blocked

\* the Chebyshev distance of two columns
Chebyshev(a, b) == Max(abs(a[1] - b[1]), abs(a[2] - b[2]))

\* the column the predecessor links lead to from n
RECURSIVE Origin(_, _)
Origin(cf, n) == IF n \in DOMAIN cf THEN Origin(cf, cf[n]) ELSE n

\* The start has no predecessor, and the links from every reached column
\* arrive at the start without a cycle, each link joining two adjacent columns.
LinksReachStart ==
    /\ start_node \notin DOMAIN came_from
    /\ \A n \in DOMAIN came_from :
          /\ g_score[came_from[n]] < g_score[n]
          /\ Chebyshev(came_from[n], n) = 1
    /\ \A n \in DOMAIN came_from : Origin(came_from, n) = start_node

\* Consecutive columns of route r are 8-adjacent and no column comes twice.
Contiguous(r) ==
    /\ \A i \in 1 .. Len(r) - 1 : Chebyshev(Col(r[i]), Col(r[i + 1])) = 1
    /\ \A i, j \in DOMAIN r : Col(r[i]) = Col(r[j]) => i = j

\* C24: in every route of the search (not of the fallback) each pair of
\* consecutive columns is 8-adjacent and no column appears twice; all along
\* the search the start has no predecessor and the predecessor links lead
\* from every reached column to the start without a cycle.
C24_RouteContiguity ==
    /\ Planned => LinksReachStart
    /\ (Returned /\ ~FellBack) => Contiguous(out.ret.path)

\* C24: a returned route of the search of four columns or more.
C24_Witness ==
    /\ Returned
    /\ ~FellBack
    /\ Len(out.ret.path) >= 4
    /\ Contiguous(out.ret.path)

\* On the level build_smart_path was called on, column c has a built-material
\* block in the five cells above its recorded ground elevation.
BuiltAbove(c) ==
    \E dy \in 1 .. 5 :
        get_block(prev.level, << c[1], ground[c] + dy, c[2] >>) \in BUILDING_BLOCKS

\* the columns between the classified bounds
ClassifiedBox ==
    LET b == PathBox(start_node, end_node)
    IN  (b.min_x .. b.max_x) \X (b.min_z .. b.max_z)

\* C25: no column of a route of the search (not of the fallback) has a
\* built-material block in the five cells above its recorded ground
\* elevation, and every column of the sampled height map, which the search
\* may enter, lies between the classified bounds.
C25_RoutesAvoidStructures ==
    /\ (Returned /\ ~FellBack) =>
          \A i \in DOMAIN out.ret.path :
              Col(out.ret.path[i]) \in DOMAIN ground => ~BuiltAbove(Col(out.ret.path[i]))
    /\ Planned => DOMAIN ground \subseteq ClassifiedBox

====
